---- MODULE Spec2Model ----
(***************************************************************************)
(* Model of backend/main.py: the /wind-grid handler (wind_grid) and the    *)
(* point fetcher (_fetch_open_meteo_speed) it fans out over the sample     *)
(* grid with asyncio.gather on a shared httpx.AsyncClient.                 *)
(*                                                                         *)
(* Numbers: coordinates are integers in micro-degrees (round(x, 6));       *)
(* the provider's speeds are JSON numbers, digits * 10^-scale, and the     *)
(* speeds computed from them are IEEE 754 binary64 floats with their       *)
(* rounding, so that sum(collected) / len(collected) is computed the way   *)
(* Python computes it.  Time is a discrete clock in the unit of the        *)
(* client's timeout (seconds).                                             *)
(***************************************************************************)
EXTENDS Integers, Sequences, FiniteSets, TLC

\* ---------------------------------------------------------------- constants
MIN_GRID_DIMENSION == 4
MAX_GRID_DIMENSION == 24
MAX_SAMPLE_POINTS == 81
\* httpx.AsyncClient(timeout=10.0, limits=Limits(max_connections=16, ...))
TIMEOUT == 10
MAX_CONNECTIONS == 16

\* ------------------------------------------------------------------- bounds
\* the planner specification explores requested rows / cols from ReqMargin
\* below MIN_GRID_DIMENSION to ReqMargin above MAX_GRID_DIMENSION
ReqMargin == 5
\* latencies of the provider: 1..MaxLatency (above TIMEOUT: no answer in time)
MaxLatency == 12
\* how many leading sample points get an independently chosen provider answer
VaryLen == 2
\* how many rotations of the staggered latency patterns are explored
MaxShift == 0

VARIABLES
    request,        \* WindGridRequest
    current_hour,   \* datetime.utcnow() floored to the hour, as the provider formats it
    provider,       \* what the provider answers for the k-th sample point
    latency,        \* how long the provider takes for the k-th sample point
    pc,             \* position of the wind_grid coroutine
    rows, cols,     \* locals of wind_grid
    sample_points,  \* list of (i, j, lat, lon)
    status,         \* per fetch task: "new", "waiting", "inflight", "done"
    since,          \* per fetch task: clock value when it got its connection
    attempts,       \* per fetch task: number of client.get calls made
    responses,      \* result list of asyncio.gather, one slot per awaitable
    clock,          \* time elapsed since the batch was dispatched
    grid,           \* rows x cols matrix, None or a speed
    collected,      \* list of successful speeds
    index,          \* loop counter of the pass that is running
    average_speed, min_speed, max_speed,
    result          \* what the handler returned or raised

vars == <<request, current_hour, provider, latency, pc, rows, cols,
          sample_points, status, since, attempts, responses, clock, grid,
          collected, index, average_speed, min_speed, max_speed, result>>

\* ------------------------------------------------------------ value helpers
None == <<>>

Max(a, b) == IF a >= b THEN a ELSE b
Min(a, b) == IF a <= b THEN a ELSE b

\* round(num / den, 0) on micro-degrees, ties to even as Python's round()
RoundDiv(num, den) ==
    LET q == num \div den
        r == num % den
    IN  IF 2 * r < den THEN q
        ELSE IF 2 * r > den THEN q + 1
        ELSE IF q % 2 = 0 THEN q ELSE q + 1

\* ------------------------------------------------------------------ floats
\* A Python float is an IEEE 754 binary64 number: sign, a significand of
\* MANT_DIG bits and an exponent.  The significand is a natural number held
\* as LIMBS digits of LIMB_BITS bits, least significant first, because it
\* does not fit the integers of the model checker; the value of
\* [sign, mant, exp] is sign * mant * 2^exp, with mant = 0 or
\* 2^(MANT_DIG-1) <= mant < 2^MANT_DIG.  Subnormals, infinities and NaN are
\* out of the range of wind speeds and are not modelled.
MANT_DIG == 53
LIMB_BITS == 14
LIMBS == 5
BASE == 2^LIMB_BITS

Digits == 1..LIMBS

NatZero == [i \in Digits |-> 0]

\* the natural number n < BASE^3 as digits
NatOf(n) ==
    [i \in Digits |->
        IF i = 1 THEN n % BASE
        ELSE IF i = 2 THEN (n \div BASE) % BASE
        ELSE IF i = 3 THEN n \div (BASE * BASE)
        ELSE 0]

\* digit i of a, 0 outside the digits
DigitAt(a, i) == IF i \in Digits THEN a[i] ELSE 0

RECURSIVE Carry(_, _, _)
Carry(a, b, i) == IF i = 0 THEN 0 ELSE (a[i] + b[i] + Carry(a, b, i - 1)) \div BASE

NatAdd(a, b) == [i \in Digits |-> (a[i] + b[i] + Carry(a, b, i - 1)) % BASE]

RECURSIVE Borrow(_, _, _)
Borrow(a, b, i) ==
    IF i = 0 THEN 0
    ELSE IF a[i] - b[i] - Borrow(a, b, i - 1) < 0 THEN 1 ELSE 0

\* a - b for a >= b
NatSub(a, b) == [i \in Digits |-> (a[i] - b[i] - Borrow(a, b, i - 1) + BASE) % BASE]

NatLess(a, b) ==
    \E i \in Digits : a[i] < b[i] /\ \A j \in Digits : j > i => a[j] = b[j]

\* the number of bits of a: 0 for 0, otherwise 1 + the position of the top bit
BitLen(a) ==
    IF a = NatZero THEN 0
    ELSE LET top == CHOOSE i \in Digits : a[i] # 0 /\ \A j \in Digits : j > i => a[j] = 0
             bits == CHOOSE b \in 1..LIMB_BITS : 2^(b - 1) <= a[top] /\ a[top] < 2^b
         IN  (top - 1) * LIMB_BITS + bits

\* bit k of a (bit 0 is the least significant)
BitAt(a, k) == (DigitAt(a, (k \div LIMB_BITS) + 1) \div 2^(k % LIMB_BITS)) % 2

\* a * 2^k, for a result below BASE^LIMBS
ShiftLeft(a, k) ==
    LET q == k \div LIMB_BITS
        r == k % LIMB_BITS
    IN  [i \in Digits |->
            (DigitAt(a, i - q) % 2^(LIMB_BITS - r)) * 2^r
            + DigitAt(a, i - q - 1) \div 2^(LIMB_BITS - r)]

\* a div 2^k
ShiftRight(a, k) ==
    LET q == k \div LIMB_BITS
        r == k % LIMB_BITS
    IN  [i \in Digits |->
            DigitAt(a, i + q) \div 2^r
            + (DigitAt(a, i + q + 1) % 2^r) * 2^(LIMB_BITS - r)]

\* a mod 2^k = 0
LowBitsZero(a, k) ==
    \A i \in Digits :
        IF i <= k \div LIMB_BITS THEN a[i] = 0
        ELSE IF i = (k \div LIMB_BITS) + 1 THEN a[i] % 2^(k % LIMB_BITS) = 0
        ELSE TRUE

\* long division of a by a small n: the remainder once the digits from the
\* top down to digit i are taken in
RECURSIVE RemFrom(_, _, _)
RemFrom(a, n, i) ==
    IF i > LIMBS THEN 0 ELSE (RemFrom(a, n, i + 1) * BASE + a[i]) % n

NatDiv(a, n) == [i \in Digits |-> (RemFrom(a, n, i + 1) * BASE + a[i]) \div n]

NatMod(a, n) == RemFrom(a, n, 1)

Float(sg, m, e) == [sign |-> sg, mant |-> m, exp |-> e]

\* the element of a singleton; The({e(x) : x \in {v}}) is e of the value
\* of v, which is computed once
The(S) == CHOOSE r \in S : TRUE

FZero == Float(1, NatZero, 0)

\* the float nearest to sg * (n + f) * 2^e, ties to even, where 0 <= f < 1
\* and f > 0 iff sticky; with sticky, n has more than MANT_DIG + 1 bits
RoundToFloat(sg, n0, e, sticky) ==
    The({ The({
        IF n = NatZero THEN FZero
        ELSE IF k <= 0 THEN Float(sg, ShiftLeft(n, 0 - k), e + k)
        ELSE LET half == BitAt(n, k - 1) = 1
                 rest == sticky \/ ~LowBitsZero(n, k - 1)
                 up == half /\ (rest \/ BitAt(n, k) = 1)
             IN  The({ IF BitLen(m) > MANT_DIG
                       THEN Float(sg, ShiftRight(m, 1), e + k + 1)
                       ELSE Float(sg, m, e + k) :
                       m \in {IF up THEN NatAdd(ShiftRight(n, k), NatOf(1))
                                    ELSE ShiftRight(n, k)} })
        : k \in {BitLen(n) - MANT_DIG} })
        : n \in {n0} })

\* float(i) for an int i, |i| < BASE^3 (exact)
FromInt(i) == RoundToFloat(IF i < 0 THEN -1 ELSE 1, NatOf(IF i < 0 THEN 0 - i ELSE i), 0, FALSE)

\* |x| < |y|
MagLess(x, y) ==
    IF y.mant = NatZero THEN FALSE
    ELSE IF x.mant = NatZero THEN TRUE
    ELSE x.exp < y.exp \/ (x.exp = y.exp /\ NatLess(x.mant, y.mant))

\* x < y
FLess(x, y) ==
    IF x.sign # y.sign THEN x.sign < y.sign
    ELSE IF x.sign = 1 THEN MagLess(x, y) ELSE MagLess(y, x)

FLeq(x, y) == ~FLess(y, x)

\* the spare bits kept below the smaller operand of a sum
GUARD_BITS == 16

\* x + y, correctly rounded, for |x| >= |y| > 0
AddOrdered(x, y) ==
    LET d == x.exp - y.exp
        exact == d <= GUARD_BITS
        big == ShiftLeft(x.mant, IF exact THEN d ELSE GUARD_BITS)
        small == IF exact THEN y.mant ELSE ShiftRight(y.mant, d - GUARD_BITS)
        sticky == ~exact /\ ~LowBitsZero(y.mant, d - GUARD_BITS)
        e == IF exact THEN y.exp ELSE x.exp - GUARD_BITS
    IN  IF x.sign = y.sign
        THEN RoundToFloat(x.sign, NatAdd(big, small), e, sticky)
        ELSE IF sticky
             THEN RoundToFloat(x.sign, NatSub(NatSub(big, small), NatOf(1)), e, TRUE)
             ELSE RoundToFloat(x.sign, NatSub(big, small), e, FALSE)

\* x + y
FAdd(x0, y0) ==
    The({ IF y.mant = NatZero THEN x
          ELSE IF x.mant = NatZero THEN y
          ELSE IF MagLess(x, y) THEN AddOrdered(y, x) ELSE AddOrdered(x, y) :
          x \in {x0}, y \in {y0} })

FNeg(x) == IF x.mant = NatZero THEN x ELSE Float(0 - x.sign, x.mant, x.exp)

\* x - y
FSub(x, y) == FAdd(x, FNeg(y))

\* the number of bits of the int n >= 1
IntBits(n) == CHOOSE b \in 1..(LIMB_BITS - 2) : 2^(b - 1) <= n /\ n < 2^b

\* x / n for an int n, 1 <= n < 2^(LIMB_BITS - 2), correctly rounded
FDivInt(x0, n) ==
    The({ The({
        RoundToFloat(x.sign, NatDiv(num, n), x.exp - (b + 2), NatMod(num, n) # 0)
        : num \in {ShiftLeft(x.mant, b + 2)} })
        : x \in {x0}, b \in {IntBits(n)} })

\* a JSON number of the provider's payload: digits * 10^-scale
Dec(digits, scale) == <<digits, scale>>

\* float() of a JSON number: of the integer for a literal without a
\* fraction, else the float nearest to digits / 10^scale
FromJSON(v) ==
    IF v[2] = 0 THEN FromInt(v[1]) ELSE FDivInt(FromInt(v[1]), 10^v[2])

\* sum(collected) by adding the items from left to right, each addition
\* rounded (CPython up to 3.11); acc is the sum of the items before item i
RECURSIVE SumFrom(_, _, _)
SumFrom(c, i, acc) ==
    IF i > Len(c) THEN acc
    ELSE The({SumFrom(c, i + 1, t) : t \in {FAdd(acc, c[i])}})

SumLeftToRight(c) == SumFrom(c, 1, FZero)

\* sum(collected) with the compensated summation of CPython from 3.12 on:
\* hi is the rounded running sum and lo collects the rounding errors, which
\* are added at the end
CsAdd(hi, lo, x) ==
    The({ IF ~MagLess(hi, x)
          THEN <<t, FAdd(lo, FAdd(FSub(hi, t), x))>>
          ELSE <<t, FAdd(lo, FAdd(FSub(x, t), hi))>> :
          t \in {FAdd(hi, x)} })

RECURSIVE CsFrom(_, _, _)
CsFrom(c, i, total) ==
    IF i > Len(c) THEN total
    ELSE The({CsFrom(c, i + 1, t) : t \in {CsAdd(total[1], total[2], c[i])}})

SumCompensated(c) ==
    The({ IF total[2] # FZero THEN FAdd(total[1], total[2]) ELSE total[1] :
          total \in {CsFrom(c, 1, <<FZero, FZero>>)} })

\* sum(collected), as the one or the other build of Python computes it
Sums(c) == {SumLeftToRight(c), SumCompensated(c)}

\* min(collected) and max(collected)
ListMin(s) == CHOOSE x \in {s[i] : i \in 1..Len(s)} : \A j \in 1..Len(s) : FLeq(x, s[j])

ListMax(s) == CHOOSE x \in {s[i] : i \in 1..Len(s)} : \A j \in 1..Len(s) : FLeq(s[j], x)

\* ------------------------------------------------------------- the provider
\* One answer of the provider to client.get: a transport failure, a non-2xx
\* status, or a JSON payload with hourly.wind_speed_100m and hourly.time.
Payload(st, sp, tm) == [status |-> st, speeds |-> sp, times |-> tm]

Payloads ==
    { Payload("ok", <<Dec(-2, 0)>>, <<>>),
      Payload("ok", <<Dec(5, 0), Dec(1, 0)>>, <<"h2", "h3">>),
      Payload("ok", <<>>, <<"h0", "h1">>),
      Payload("http_error", <<>>, <<>>) }

RestPayloads ==
    { Payload("ok", <<Dec(3, 0), Dec(7, 0)>>, <<"h0", "h1">>),
      Payload("transport_error", <<>>, <<>>) }

Hours == {"h1"}

PENDING == [kind |-> "pending", value |-> FZero]
EXC == [kind |-> "exc", value |-> FZero]
Value(v) == [kind |-> "value", value |-> v]

\* times.index(current_hour), 0-based; only called when hour occurs in times
RECURSIVE ListIndex(_, _)
ListIndex(times, hour) ==
    IF times[1] = hour THEN 0 ELSE 1 + ListIndex(Tail(times), hour)

\* mutation: the first entry of the series is returned whatever the hour
FetchOutcomeFirst(p, hour) ==
    IF p.status # "ok" THEN EXC
    ELSE IF p.speeds = <<>> THEN EXC
    ELSE IF p.speeds[1] = None THEN EXC
    ELSE Value(FromJSON(p.speeds[1]))

\* what one call of _fetch_open_meteo_speed returns (a float) or raises, once
\* client.get has produced the provider's answer p; speeds[index] raises
\* IndexError beyond the end of the series and float(None) raises TypeError
FetchOutcome(p, hour) ==
    IF p.status # "ok" THEN EXC
    ELSE IF p.speeds = <<>> THEN EXC
    ELSE LET idx == IF p.times # <<>> /\ \E t \in 1..Len(p.times) : p.times[t] = hour
                    THEN ListIndex(p.times, hour)
                    ELSE 0
         IN  IF idx + 1 > Len(p.speeds) THEN EXC
             ELSE IF p.speeds[idx + 1] = None THEN EXC
             ELSE Value(FromJSON(p.speeds[idx + 1]))

\* ------------------------------------------------------------ the requests
Request(a, b, c, d, r, k) ==
    [min_lat |-> a, min_lon |-> b, max_lat |-> c, max_lon |-> d, rows |-> r, cols |-> k]

Deg == 1000000

\* boxes as <<min_lat, min_lon, max_lat, max_lon>> in micro-degrees
GoodBox == <<10 * Deg, 10 * Deg, 11 * Deg, 11 * Deg>>

BadBoxes ==
    { <<10 * Deg, 10 * Deg, 5 * Deg, 11 * Deg>>,
      <<10 * Deg, 10 * Deg, 11 * Deg, 10 * Deg>>,
      <<10 * Deg, 10 * Deg, 10 * Deg, 12 * Deg>> }

\* requested dimensions of the small grids: 16 points, and 20 points (more
\* than the pool has connections)
PipelineDims == { <<2, 2>>, <<4, 5>> }

\* the defaults of WindGridRequest (lines 36-37), planned as 9 x 9 = 81 points
DefaultDims == <<18, 18>>

\* the provider's answers, by sample point: the first VaryLen points chosen
\* freely (head), one answer for all the others (rest)
Providers == [head : [1..VaryLen -> Payloads], rest : RestPayloads]

SameAnswer(p) == [head |-> <<>>, rest |-> p]

ProviderAt(k) == IF k <= Len(provider.head) THEN provider.head[k] ELSE provider.rest

\* a provider that answers the 16 points of the smallest grid with the values
\* 5, 6, ..., 20 in the order of the points
RowMajorAnswers ==
    [head |-> [k \in 1..(MIN_GRID_DIMENSION * MIN_GRID_DIMENSION) |->
                  Payload("ok", <<Dec(4 + k, 0)>>, <<>>)],
     rest |-> Payload("transport_error", <<>>, <<>>)]

\* a provider whose answers exercise the hour lookup of lines 60-72: the
\* current hour beyond the end of the speed series, absent, in second place,
\* no timestamps, no speeds, the hour twice, fewer timestamps than speeds,
\* a null entry at the current hour
HourLookupAnswers ==
    [head |-> << Payload("ok", <<Dec(4, 0)>>, <<"h0", "h1">>),
                 Payload("ok", <<Dec(5, 0), Dec(1, 0)>>, <<"h2", "h3">>),
                 Payload("ok", <<Dec(3, 0), Dec(7, 0)>>, <<"h0", "h1">>),
                 Payload("ok", <<Dec(-2, 0)>>, <<>>),
                 Payload("ok", <<>>, <<"h0", "h1">>),
                 Payload("ok", <<Dec(6, 0), Dec(25, 1), Dec(8, 0)>>, <<"h0", "h1", "h1">>),
                 Payload("ok", <<Dec(9, 0), Dec(8, 0)>>, <<"h1">>),
                 Payload("http_error", <<>>, <<>>),
                 Payload("ok", <<None, Dec(4, 0)>>, <<"h1", "h2">>) >>,
     rest |-> Payload("ok", <<Dec(3, 0), Dec(7, 0)>>, <<"h0", "h1">>)]

\* a provider with speeds that are no binary fractions: 12.3 for the first
\* three points and a failure for the others
DecimalAnswers ==
    [head |-> [k \in 1..3 |-> Payload("ok", <<Dec(123, 1)>>, <<>>)],
     rest |-> Payload("transport_error", <<>>, <<>>)]

\* 2.2 everywhere but for one 0.1 and one -0.7
MixedDecimalAnswers ==
    [head |-> << Payload("ok", <<Dec(1, 1)>>, <<>>), Payload("ok", <<Dec(-7, 1)>>, <<>>) >>,
     rest |-> Payload("ok", <<Dec(22, 1)>>, <<>>)]

ScenarioProviders ==
    {RowMajorAnswers, HourLookupAnswers, DecimalAnswers, MixedDecimalAnswers}

\* the provider's delays, by sample point: staggered over 1..m, ascending
\* (d = 1) or descending (d = m - 1) in the index
Staggered(d, s, m) == [d |-> d, s |-> s, m |-> m]

Latencies ==
    { Staggered(IF up THEN 1 ELSE m - 1, s, m) :
        up \in BOOLEAN, s \in 0..MaxShift, m \in {TIMEOUT, MaxLatency} }

\* a provider that answers every point with the same delay l
Uniform(l) == Staggered(0, l - 1, l)

LatencyAt(k) == 1 + ((k * latency.d + latency.s) % latency.m)

InitLocals ==
    /\ pc = "validate"
    /\ rows = 0
    /\ cols = 0
    /\ sample_points = <<>>
    /\ status = <<>>
    /\ since = <<>>
    /\ attempts = <<>>
    /\ responses = <<>>
    /\ clock = 0
    /\ grid = <<>>
    /\ collected = <<>>
    /\ index = 0
    /\ average_speed = None
    /\ min_speed = None
    /\ max_speed = None
    /\ result = [kind |-> "none"]

Init ==
    /\ current_hour \in Hours
    /\ \/ /\ \E d \in PipelineDims :
                request = Request(GoodBox[1], GoodBox[2], GoodBox[3], GoodBox[4], d[1], d[2])
          /\ provider \in Providers
          /\ latency \in Latencies
       \/ /\ request = Request(GoodBox[1], GoodBox[2], GoodBox[3], GoodBox[4],
                               DefaultDims[1], DefaultDims[2])
          /\ provider \in {SameAnswer(rest) : rest \in RestPayloads}
          /\ latency = Uniform(MaxLatency)
       \/ /\ \E b \in BadBoxes, d \in PipelineDims :
                request = Request(b[1], b[2], b[3], b[4], d[1], d[2])
          /\ provider \in Providers
          /\ latency = Uniform(1)
       \/ /\ request = Request(GoodBox[1], GoodBox[2], GoodBox[3], GoodBox[4], 2, 2)
          /\ provider \in ScenarioProviders
          /\ latency \in Latencies
    /\ InitLocals

\* ------------------------------------------------------------- GridPlanner
\* mutation: only the latitudes are compared
ValidateLatOnly ==
    /\ pc = "validate"
    /\ IF request.max_lat <= request.min_lat
       THEN /\ pc' = "raised"
            /\ result' = [kind |-> "error", status_code |-> 400]
       ELSE /\ pc' = "clamp"
            /\ UNCHANGED result
    /\ UNCHANGED <<request, current_hour, provider, latency, rows, cols,
                   sample_points, status, since, attempts, responses, clock,
                   grid, collected, index, average_speed, min_speed, max_speed>>

\* lines 148-149
Validate ==
    /\ pc = "validate"
    /\ IF request.max_lat <= request.min_lat \/ request.max_lon <= request.min_lon
       THEN /\ pc' = "raised"
            /\ result' = [kind |-> "error", status_code |-> 400]
       ELSE /\ pc' = "clamp"
            /\ UNCHANGED result
    /\ UNCHANGED <<request, current_hour, provider, latency, rows, cols,
                   sample_points, status, since, attempts, responses, clock,
                   grid, collected, index, average_speed, min_speed, max_speed>>

\* mutation: the lower clamp is forgotten
ClampDimNoFloor(x) == Min(x, MAX_GRID_DIMENSION)

\* max(MIN_GRID_DIMENSION, min(x, MAX_GRID_DIMENSION))
ClampDim(x) == Max(MIN_GRID_DIMENSION, Min(x, MAX_GRID_DIMENSION))

\* lines 151-152
Clamp ==
    /\ pc = "clamp"
    /\ rows' = ClampDim(request.rows)
    /\ cols' = ClampDim(request.cols)
    /\ pc' = "reduce"
    /\ UNCHANGED <<request, current_hour, provider, latency,
                   sample_points, status, since, attempts, responses, clock,
                   grid, collected, index, average_speed, min_speed, max_speed, result>>

\* mutation: rows are shrunk as long as they are above the floor, whatever cols is
ReduceStepRowsFirst ==
    /\ pc = "reduce"
    /\ IF rows * cols > MAX_SAMPLE_POINTS
       THEN IF rows > MIN_GRID_DIMENSION
            THEN rows' = rows - 1 /\ cols' = cols /\ pc' = pc
            ELSE IF cols > MIN_GRID_DIMENSION
                 THEN cols' = cols - 1 /\ rows' = rows /\ pc' = pc
                 ELSE pc' = "plan" /\ UNCHANGED <<rows, cols>>
       ELSE pc' = "plan" /\ UNCHANGED <<rows, cols>>
    /\ UNCHANGED <<request, current_hour, provider, latency,
                   sample_points, status, since, attempts, responses, clock,
                   grid, collected, index, average_speed, min_speed, max_speed, result>>

\* mutation: equal dimensions shrink cols
ReduceStepTieCols ==
    /\ pc = "reduce"
    /\ IF rows * cols > MAX_SAMPLE_POINTS
       THEN IF rows > cols /\ rows > MIN_GRID_DIMENSION
            THEN rows' = rows - 1 /\ cols' = cols /\ pc' = pc
            ELSE IF cols > MIN_GRID_DIMENSION
                 THEN cols' = cols - 1 /\ rows' = rows /\ pc' = pc
                 ELSE pc' = "plan" /\ UNCHANGED <<rows, cols>>
       ELSE pc' = "plan" /\ UNCHANGED <<rows, cols>>
    /\ UNCHANGED <<request, current_hour, provider, latency,
                   sample_points, status, since, attempts, responses, clock,
                   grid, collected, index, average_speed, min_speed, max_speed, result>>

\* mutation: the floor tests name the ceiling
ReduceStepWrongFloor ==
    /\ pc = "reduce"
    /\ IF rows * cols > MAX_SAMPLE_POINTS
       THEN IF rows >= cols /\ rows > MAX_GRID_DIMENSION
            THEN rows' = rows - 1 /\ cols' = cols /\ pc' = pc
            ELSE IF cols > MAX_GRID_DIMENSION
                 THEN cols' = cols - 1 /\ rows' = rows /\ pc' = pc
                 ELSE pc' = "plan" /\ UNCHANGED <<rows, cols>>
       ELSE pc' = "plan" /\ UNCHANGED <<rows, cols>>
    /\ UNCHANGED <<request, current_hour, provider, latency,
                   sample_points, status, since, attempts, responses, clock,
                   grid, collected, index, average_speed, min_speed, max_speed, result>>

\* one evaluation of the while condition and, when it holds, of the loop body
\* (lines 154-160)
ReduceStep ==
    /\ pc = "reduce"
    /\ IF rows * cols > MAX_SAMPLE_POINTS
       THEN IF rows >= cols /\ rows > MIN_GRID_DIMENSION
            THEN rows' = rows - 1 /\ cols' = cols /\ pc' = pc
            ELSE IF cols > MIN_GRID_DIMENSION
                 THEN cols' = cols - 1 /\ rows' = rows /\ pc' = pc
                 ELSE pc' = "plan" /\ UNCHANGED <<rows, cols>>
       ELSE pc' = "plan" /\ UNCHANGED <<rows, cols>>
    /\ UNCHANGED <<request, current_hour, provider, latency,
                   sample_points, status, since, attempts, responses, clock,
                   grid, collected, index, average_speed, min_speed, max_speed, result>>

\* round(request.min + step * i, 6) with step = (max - min) / (dim - 1)
Coord(lo, hi, dim, i) ==
    IF dim > 1 THEN RoundDiv(lo * (dim - 1) + (hi - lo) * i, dim - 1) ELSE lo

\* mutation: the row and column indices of a point are swapped
InnerLoopSwapped(q, nrows, ncols, i) ==
    [jj \in 1..ncols |-> <<jj - 1, i, Coord(q.min_lat, q.max_lat, nrows, i),
                                      Coord(q.min_lon, q.max_lon, ncols, jj - 1)>>]

\* the inner loop of lines 167-169 for row i: one point per column, in the
\* order of j
InnerLoop(q, nrows, ncols, i) ==
    [jj \in 1..ncols |-> <<i, jj - 1, Coord(q.min_lat, q.max_lat, nrows, i),
                                      Coord(q.min_lon, q.max_lon, ncols, jj - 1)>>]

\* the outer loop of lines 165-169, from row i on: the points of row i are
\* appended before those of the rows after it
RECURSIVE OuterLoop(_, _, _, _)
OuterLoop(q, nrows, ncols, i) ==
    IF i >= nrows THEN <<>>
    ELSE InnerLoop(q, nrows, ncols, i) \o OuterLoop(q, nrows, ncols, i + 1)

\* lines 161-169
Plan ==
    /\ pc = "plan"
    /\ sample_points' = OuterLoop(request, rows, cols, 0)
    /\ pc' = "dispatch"
    /\ UNCHANGED <<request, current_hour, provider, latency, rows, cols,
                   status, since, attempts, responses, clock,
                   grid, collected, index, average_speed, min_speed, max_speed, result>>

NextPlan == Validate \/ Clamp \/ ReduceStep \/ Plan

\* the planner on its own, over a range of requested dimensions
ReqDims ==
    ((MIN_GRID_DIMENSION - ReqMargin)..(MAX_GRID_DIMENSION + ReqMargin)) \cup {4 * (MAX_GRID_DIMENSION + 1)}

InitPlan ==
    /\ current_hour \in Hours
    /\ \E b \in {GoodBox} \cup BadBoxes, r \in ReqDims, c \in ReqDims :
          request = Request(b[1], b[2], b[3], b[4], r, c)
    /\ provider = SameAnswer(Payload("ok", <<Dec(3, 0), Dec(7, 0)>>, <<"h0", "h1">>))
    /\ latency = Uniform(1)
    /\ InitLocals

SpecPlan == InitPlan /\ [][NextPlan]_vars

\* the planner runs to its end: the handler is one coroutine that the event
\* loop keeps running until it suspends at gather
FairPlan == InitPlan /\ [][NextPlan]_vars /\ WF_vars(NextPlan)

\* ---------------------------------------------------------- FanOutExecutor
Tasks == 1..Len(sample_points)

InUse == Cardinality({k \in Tasks : status[k] = "inflight"})

\* lines 171-178: the client is built and gather wraps one coroutine per
\* sample point into a task; the handler suspends on the gather future
Dispatch ==
    /\ pc = "dispatch"
    /\ status' = [k \in Tasks |-> "new"]
    /\ since' = [k \in Tasks |-> 0]
    /\ attempts' = [k \in Tasks |-> 0]
    /\ responses' = [k \in Tasks |-> PENDING]
    /\ clock' = 0
    /\ pc' = "gather"
    /\ UNCHANGED <<request, current_hour, provider, latency, rows, cols, sample_points,
                   grid, collected, index, average_speed, min_speed, max_speed, result>>

\* mutation: the pool has no cap
PoolAdmitsAll(inuse) == TRUE

\* limits=httpx.Limits(max_connections=16, ...): the pool hands out a
\* connection while fewer than max_connections are in use
PoolAdmits(inuse) == inuse < MAX_CONNECTIONS

\* line 54: task k runs up to its await of client.get; the event loop starts
\* the tasks in the order gather created them
StartFetch(k) ==
    /\ pc = "gather"
    /\ status[k] = "new"
    /\ \A j \in Tasks : j < k => status[j] # "new"
    /\ attempts' = [attempts EXCEPT ![k] = @ + 1]
    /\ IF PoolAdmits(InUse)
       THEN status' = [status EXCEPT ![k] = "inflight"] /\ since' = [since EXCEPT ![k] = clock]
       ELSE status' = [status EXCEPT ![k] = "waiting"] /\ UNCHANGED since
    /\ UNCHANGED <<request, current_hour, provider, latency, pc, rows, cols, sample_points,
                   responses, clock,
                   grid, collected, index, average_speed, min_speed, max_speed, result>>

\* mutation: the first exception ends the batch and fails what is still pending
GatherStoreFailFast(res, k, outcome) ==
    IF outcome.kind = "exc"
    THEN [j \in DOMAIN res |-> IF res[j].kind = "pending" THEN outcome ELSE res[j]]
    ELSE [res EXCEPT ![k] = outcome]

\* mutation: outcomes are kept in the order of completion
GatherStoreCompletionOrder(res, k, outcome) ==
    LET slot == CHOOSE j \in DOMAIN res :
                    /\ res[j].kind = "pending"
                    /\ \A i \in DOMAIN res : i < j => res[i].kind # "pending"
    IN  [res EXCEPT ![slot] = outcome]

\* gather(..., return_exceptions=True) keeps the outcome of the k-th awaitable
\* in the k-th slot of its result list (lines 175-178)
GatherStore(res, k, outcome) == [res EXCEPT ![k] = outcome]

\* the requests queued in the pool, and the one queued first
Waiting(st) == {j \in Tasks : st[j] = "waiting"}

FirstWaiting(st) == CHOOSE j \in Waiting(st) : \A i \in Waiting(st) : j <= i

\* task k is over and its connection goes back to the pool, which hands it
\* to the request that has been queued longest
Release(st, k) ==
    LET done == [st EXCEPT ![k] = "done"]
    IN  IF st[k] = "inflight" /\ Waiting(st) # {}
        THEN [done EXCEPT ![FirstWaiting(st)] = "inflight"]
        ELSE done

Granted(st, k) ==
    IF st[k] = "inflight" /\ Waiting(st) # {} THEN {FirstWaiting(st)} ELSE {}

\* when the await of client.get of task k ends: the provider's answer arrives
\* after LatencyAt(k), unless timeout=10.0 expires first
Due(k) == since[k] + Min(LatencyAt(k), TIMEOUT)

\* a timeout of task k expires now: the read timeout of a request that holds
\* a connection, or the pool timeout of a queued request (queued at clock 0)
TimerDue(k) ==
    \/ status[k] = "inflight" /\ LatencyAt(k) > TIMEOUT /\ clock = since[k] + TIMEOUT
    \/ status[k] = "waiting" /\ clock = TIMEOUT

\* timers of the same length expire in the order they were set, which is the
\* order of the tasks
TimerFires(k) == TimerDue(k) /\ \A j \in Tasks : j < k => ~TimerDue(j)

\* lines 54-72: client.get returns the provider's answer, or raises on a
\* transport failure, and the coroutine runs to its end
Resolve(k) ==
    /\ pc = "gather"
    /\ status[k] = "inflight"
    /\ LatencyAt(k) <= TIMEOUT
    /\ clock = Due(k)
    /\ status' = Release(status, k)
    /\ since' = [j \in Tasks |-> IF j \in Granted(status, k) THEN clock ELSE since[j]]
    /\ responses' = GatherStore(responses, k, FetchOutcome(ProviderAt(k), current_hour))
    /\ UNCHANGED <<request, current_hour, provider, latency, pc, rows, cols, sample_points,
                   attempts, clock,
                   grid, collected, index, average_speed, min_speed, max_speed, result>>

\* mutation: a fetch that timed out is issued a second time
ReadTimeoutRetry(k) ==
    /\ pc = "gather"
    /\ status[k] = "inflight"
    /\ TimerFires(k)
    /\ IF attempts[k] < 2
       THEN /\ attempts' = [attempts EXCEPT ![k] = @ + 1]
            /\ since' = [since EXCEPT ![k] = clock]
            /\ UNCHANGED <<status, responses>>
       ELSE /\ status' = Release(status, k)
            /\ since' = [j \in Tasks |-> IF j \in Granted(status, k) THEN clock ELSE since[j]]
            /\ responses' = GatherStore(responses, k, EXC)
            /\ UNCHANGED attempts
    /\ UNCHANGED <<request, current_hour, provider, latency, pc, rows, cols, sample_points,
                   clock,
                   grid, collected, index, average_speed, min_speed, max_speed, result>>

\* line 54: no answer within timeout=10.0, client.get raises httpx.ReadTimeout
ReadTimeout(k) ==
    /\ pc = "gather"
    /\ status[k] = "inflight"
    /\ TimerFires(k)
    /\ status' = Release(status, k)
    /\ since' = [j \in Tasks |-> IF j \in Granted(status, k) THEN clock ELSE since[j]]
    /\ responses' = GatherStore(responses, k, EXC)
    /\ UNCHANGED <<request, current_hour, provider, latency, pc, rows, cols, sample_points,
                   attempts, clock,
                   grid, collected, index, average_speed, min_speed, max_speed, result>>

\* line 54: no connection within timeout=10.0, client.get raises httpx.PoolTimeout
PoolTimeout(k) ==
    /\ pc = "gather"
    /\ status[k] = "waiting"
    /\ TimerFires(k)
    /\ status' = Release(status, k)
    /\ responses' = GatherStore(responses, k, EXC)
    /\ UNCHANGED <<request, current_hour, provider, latency, pc, rows, cols, sample_points,
                   since, attempts, clock,
                   grid, collected, index, average_speed, min_speed, max_speed, result>>

\* time passes while the handler is suspended and nothing is due
Tick ==
    /\ pc = "gather"
    /\ \E k \in Tasks : status[k] # "done"
    /\ \A k \in Tasks :
          /\ status[k] # "new"
          /\ status[k] = "inflight" => clock < Due(k)
          /\ status[k] = "waiting" => clock < TIMEOUT
    /\ clock' = clock + 1
    /\ UNCHANGED <<request, current_hour, provider, latency, pc, rows, cols, sample_points,
                   status, since, attempts, responses,
                   grid, collected, index, average_speed, min_speed, max_speed, result>>

\* mutation: an exception among the results is raised to the caller
JoinRaising ==
    /\ pc = "gather"
    /\ \A k \in Tasks : status[k] = "done"
    /\ IF \E k \in Tasks : responses[k].kind = "exc"
       THEN /\ pc' = "raised"
            /\ result' = [kind |-> "error", status_code |-> 500]
            /\ UNCHANGED <<grid, collected, index>>
       ELSE /\ grid' = [r \in 0..(rows - 1) |-> [c \in 0..(cols - 1) |-> None]]
            /\ collected' = <<>>
            /\ index' = 0
            /\ pc' = "collect"
            /\ UNCHANGED result
    /\ UNCHANGED <<request, current_hour, provider, latency, rows, cols, sample_points,
                   status, since, attempts, responses, clock,
                   average_speed, min_speed, max_speed>>

\* mutation: the handler resumes when the timeout has elapsed, with whatever
\* has been gathered
JoinAtTimeout ==
    /\ pc = "gather"
    /\ \/ \A k \in Tasks : status[k] = "done"
       \/ Tasks # {} /\ status # <<>> /\ clock >= TIMEOUT
    /\ grid' = [r \in 0..(rows - 1) |-> [c \in 0..(cols - 1) |-> None]]
    /\ collected' = <<>>
    /\ index' = 0
    /\ pc' = "collect"
    /\ UNCHANGED <<request, current_hour, provider, latency, rows, cols, sample_points,
                   status, since, attempts, responses, clock,
                   average_speed, min_speed, max_speed, result>>

\* mutation: the handler resumes as soon as one fetch has resolved
JoinFirstCompleted ==
    /\ pc = "gather"
    /\ \E k \in Tasks : status[k] = "done"
    /\ grid' = [r \in 0..(rows - 1) |-> [c \in 0..(cols - 1) |-> None]]
    /\ collected' = <<>>
    /\ index' = 0
    /\ pc' = "collect"
    /\ UNCHANGED <<request, current_hour, provider, latency, rows, cols, sample_points,
                   status, since, attempts, responses, clock,
                   average_speed, min_speed, max_speed, result>>

\* lines 175-181: every awaitable of gather is done, the handler resumes with
\* the result list, leaves the client and builds the empty grid
Join ==
    /\ pc = "gather"
    /\ \A k \in Tasks : status[k] = "done"
    /\ grid' = [r \in 0..(rows - 1) |-> [c \in 0..(cols - 1) |-> None]]
    /\ collected' = <<>>
    /\ index' = 0
    /\ pc' = "collect"
    /\ UNCHANGED <<request, current_hour, provider, latency, rows, cols, sample_points,
                   status, since, attempts, responses, clock,
                   average_speed, min_speed, max_speed, result>>

\* ----------------------------------------------------------- GridAggregator
\* max(0.0, float(response)): the second argument if it is the greater
ClampSpeed(v) == IF FLess(FZero, v) THEN v ELSE FZero

\* one iteration of the loop of lines 182-189 (index is 0-based)
CollectStep ==
    /\ pc = "collect"
    /\ IF index < Len(responses)
       THEN LET response == responses[index + 1]
                row_idx == sample_points[index + 1][1]
                col_idx == sample_points[index + 1][2]
            IN  /\ IF response.kind = "exc"
                   THEN /\ grid' = [grid EXCEPT ![row_idx][col_idx] = None]
                        /\ UNCHANGED collected
                   ELSE /\ grid' = [grid EXCEPT ![row_idx][col_idx] = ClampSpeed(response.value)]
                        /\ collected' = Append(collected, ClampSpeed(response.value))
                /\ index' = index + 1
                /\ pc' = pc
       ELSE /\ pc' = "check"
            /\ UNCHANGED <<grid, collected, index>>
    /\ UNCHANGED <<request, current_hour, provider, latency, rows, cols, sample_points,
                   status, since, attempts, responses, clock,
                   average_speed, min_speed, max_speed, result>>

\* mutation: the sum is divided by the number of sample points
AverageOverAll(total, c) == FDivInt(total, Len(responses))

\* sum(collected) / len(collected), for total = sum(collected)
AverageSpeed(total, c) == FDivInt(total, Len(c))

\* mutation: an empty batch is answered with a grid of zeros
CheckNoRaise ==
    /\ pc = "check"
    /\ \E total \in Sums(collected) :
          average_speed' = IF collected = <<>> THEN FZero ELSE AverageSpeed(total, collected)
    /\ min_speed' = IF collected = <<>> THEN FZero ELSE ListMin(collected)
    /\ max_speed' = IF collected = <<>> THEN FZero ELSE ListMax(collected)
    /\ index' = 0
    /\ pc' = "fill"
    /\ UNCHANGED <<request, current_hour, provider, latency, rows, cols, sample_points,
                   status, since, attempts, responses, clock, grid, collected, result>>

\* lines 191-196
Check ==
    /\ pc = "check"
    /\ IF collected = <<>>
       THEN /\ pc' = "raised"
            /\ result' = [kind |-> "error", status_code |-> 502]
            /\ UNCHANGED <<average_speed, min_speed, max_speed, index>>
       ELSE /\ \E total \in Sums(collected) :
                  average_speed' = AverageSpeed(total, collected)
            /\ min_speed' = ListMin(collected)
            /\ max_speed' = ListMax(collected)
            /\ index' = 0
            /\ pc' = "fill"
            /\ UNCHANGED result
    /\ UNCHANGED <<request, current_hour, provider, latency, rows, cols, sample_points,
                   status, since, attempts, responses, clock, grid, collected>>

\* mutation: the second pass stops one cell early
FillStepShort ==
    /\ pc = "fill"
    /\ IF index < rows * cols - 1
       THEN LET r_idx == index \div cols
                c_idx == index % cols
            IN  /\ IF grid[r_idx][c_idx] = None
                   THEN grid' = [grid EXCEPT ![r_idx][c_idx] = average_speed]
                   ELSE UNCHANGED grid
                /\ index' = index + 1
                /\ pc' = pc
       ELSE /\ pc' = "return"
            /\ UNCHANGED <<grid, index>>
    /\ UNCHANGED <<request, current_hour, provider, latency, rows, cols, sample_points,
                   status, since, attempts, responses, clock, collected,
                   average_speed, min_speed, max_speed, result>>

\* mutation: the second pass writes the average into every cell
FillStepEveryCell ==
    /\ pc = "fill"
    /\ IF index < rows * cols
       THEN LET r_idx == index \div cols
                c_idx == index % cols
            IN  /\ grid' = [grid EXCEPT ![r_idx][c_idx] = average_speed]
                /\ index' = index + 1
                /\ pc' = pc
       ELSE /\ pc' = "return"
            /\ UNCHANGED <<grid, index>>
    /\ UNCHANGED <<request, current_hour, provider, latency, rows, cols, sample_points,
                   status, since, attempts, responses, clock, collected,
                   average_speed, min_speed, max_speed, result>>

\* one cell of the nested loops of lines 198-201; index counts the cells
\* visited, r_idx = index div cols and c_idx = index mod cols
FillStep ==
    /\ pc = "fill"
    /\ IF index < rows * cols
       THEN LET r_idx == index \div cols
                c_idx == index % cols
            IN  /\ IF grid[r_idx][c_idx] = None
                   THEN grid' = [grid EXCEPT ![r_idx][c_idx] = average_speed]
                   ELSE UNCHANGED grid
                /\ index' = index + 1
                /\ pc' = pc
       ELSE /\ pc' = "return"
            /\ UNCHANGED <<grid, index>>
    /\ UNCHANGED <<request, current_hour, provider, latency, rows, cols, sample_points,
                   status, since, attempts, responses, clock, collected,
                   average_speed, min_speed, max_speed, result>>

\* lines 203-221
Return ==
    /\ pc = "return"
    /\ result' = [kind |-> "ok",
                  meta |-> [min_lat |-> request.min_lat, max_lat |-> request.max_lat,
                            min_lon |-> request.min_lon, max_lon |-> request.max_lon,
                            rows |-> rows, cols |-> cols, source |-> "open-meteo"],
                  grid |-> grid,
                  stats |-> [min_speed |-> min_speed, max_speed |-> max_speed,
                             avg_speed |-> average_speed,
                             sample_count |-> Len(collected)]]
    /\ pc' = "returned"
    /\ UNCHANGED <<request, current_hour, provider, latency, rows, cols, sample_points,
                   status, since, attempts, responses, clock, grid, collected, index,
                   average_speed, min_speed, max_speed>>

Next ==
    \/ Validate
    \/ Clamp
    \/ ReduceStep
    \/ Plan
    \/ Dispatch
    \/ \E k \in Tasks : StartFetch(k)
    \/ \E k \in Tasks : Resolve(k)
    \/ \E k \in Tasks : ReadTimeout(k)
    \/ \E k \in Tasks : PoolTimeout(k)
    \/ Tick
    \/ Join
    \/ CollectStep
    \/ Check
    \/ FillStep
    \/ Return

Spec == Init /\ [][Next]_vars

\* the batches of Init, and two 16-point batches whose answers all arrive at
\* the same time, so that the fetches complete in every possible order
InitFree ==
    \/ Init
    \/ /\ current_hour \in Hours
       /\ request = Request(GoodBox[1], GoodBox[2], GoodBox[3], GoodBox[4],
                            MIN_GRID_DIMENSION, MIN_GRID_DIMENSION)
       /\ provider \in { [head |-> <<Payload("ok", <<Dec(-2, 0)>>, <<>>), Payload("http_error", <<>>, <<>>)>>,
                          rest |-> r] : r \in RestPayloads }
       /\ latency = Uniform(1)
       /\ InitLocals

SpecFree == InitFree /\ [][Next]_vars

\* batches larger than the pool; the event loop keeps running whatever is
\* ready and time keeps passing
InitPool ==
    /\ current_hour \in Hours
    /\ \/ /\ \E d \in PipelineDims :
                /\ d[1] * d[2] > MAX_CONNECTIONS
                /\ request = Request(GoodBox[1], GoodBox[2], GoodBox[3], GoodBox[4], d[1], d[2])
          /\ provider \in {SameAnswer(rest) : rest \in RestPayloads}
          /\ latency \in Latencies
       \/ /\ request = Request(GoodBox[1], GoodBox[2], GoodBox[3], GoodBox[4],
                               DefaultDims[1], DefaultDims[2])
          /\ provider \in {SameAnswer(rest) : rest \in RestPayloads}
          /\ latency = Uniform(MaxLatency)
    /\ InitLocals

FairSpec == InitPool /\ [][Next]_vars /\ WF_vars(Next)

\* ================================================================== claims
\* the handler is past the reduction loop: rows and cols are the
\* dimensions it uses
Planned ==
    \/ pc \in {"plan", "dispatch", "gather", "collect", "check", "fill", "return", "returned"}
    \/ pc = "raised" /\ result.status_code = 502

\* C1: for every valid box and every requested (rows, cols), the dimensions
\* used after clamping and joint reduction satisfy 4 <= rows <= 24,
\* 4 <= cols <= 24 and rows * cols <= 81.
C1_DimsBounded ==
    Planned =>
        /\ MIN_GRID_DIMENSION <= rows /\ rows <= MAX_GRID_DIMENSION
        /\ MIN_GRID_DIMENSION <= cols /\ cols <= MAX_GRID_DIMENSION
        /\ rows * cols <= MAX_SAMPLE_POINTS

\* a request above the ceiling on one axis and below the floor on the other
\* has been clamped, reduced and planned
C1_Witness ==
    /\ pc = "dispatch"
    /\ request.rows > MAX_GRID_DIMENSION
    /\ request.cols < MIN_GRID_DIMENSION
    /\ rows * cols < ClampDim(request.rows) * ClampDim(request.cols)
    /\ Len(sample_points) = rows * cols

\* ---- helpers of the claims below
\* the fetches that produced a value, and those that failed
Succeeded == {k \in Tasks : responses[k].kind = "value"}

Failed == {k \in Tasks : responses[k].kind = "exc"}

\* the handler has returned a grid
ReturnedGrid == pc = "returned" /\ result.kind = "ok"

\* the cell of the returned grid that belongs to the k-th sample point
\* (row-major, 1-based k)
CellOf(k) == result.grid[(k - 1) \div cols][(k - 1) % cols]

\* a raw value, raised to 0.0 if it is below
Clamped(v) == IF FLess(v, FZero) THEN FZero ELSE v

\* the clamped values among the outcomes res, in the order of the points
OkValues(res) ==
    LET ok == SelectSeq(res, LAMBDA r : r.kind = "value")
    IN  [i \in 1..Len(ok) |-> Clamped(ok[i].value)]

\* the arithmetic mean of the floats vals, sum / count in float arithmetic
Means(vals) == The({{FDivInt(t, Len(v)) : t \in Sums(v)} : v \in {vals}})

\* C2: whenever wind_grid returns a grid, every cell grid[r][c] with
\* 0 <= r < rows, 0 <= c < cols holds a number >= 0.0; none is left unset.
C2_GridDense ==
    ReturnedGrid =>
        \A r \in 0..(rows - 1), c \in 0..(cols - 1) :
            /\ result.grid[r][c] # None
            /\ FLeq(FZero, result.grid[r][c])

\* a grid was returned after some fetches failed and some succeeded, among
\* them one with a negative raw value
C2_Witness ==
    /\ ReturnedGrid
    /\ Failed # {}
    /\ \E k \in Succeeded : FLess(responses[k].value, FZero)

\* C3: if k of the n fetches succeed with 0 < k < n, every failed cell
\* equals the arithmetic mean of the k successful clamped values, every
\* successful cell holds its own clamped value, and sample_count = k.
C3_Imputation ==
    (ReturnedGrid /\ Succeeded # {} /\ Failed # {}) =>
        /\ \A means \in {Means(OkValues(responses))} :
              \A k \in Failed : CellOf(k) # None /\ CellOf(k) \in means
        /\ \A k \in Succeeded : CellOf(k) = Clamped(responses[k].value)
        /\ result.stats.sample_count = Cardinality(Succeeded)

\* a partial result whose mean is none of the measured values
C3_Witness ==
    /\ ReturnedGrid
    /\ Cardinality(Failed) >= 2
    /\ Cardinality(Succeeded) >= 2
    /\ \A k \in Succeeded : CellOf(k) # result.stats.avg_speed

\* C4: if none of the point fetches succeeds, wind_grid fails with the
\* provider-unavailable condition (502) and produces no grid and no stats.
C4_AllFailed ==
    (pc \in {"check", "fill", "return", "returned", "raised"} /\ Tasks # {} /\ Succeeded = {}) =>
        /\ pc \in {"check", "raised"}
        /\ average_speed = None /\ min_speed = None /\ max_speed = None
        /\ pc = "raised" => result = [kind |-> "error", status_code |-> 502]

\* every fetch of a batch failed and the handler raised
C4_Witness ==
    /\ pc = "raised"
    /\ Tasks # {}
    /\ Cardinality(Failed) = rows * cols
    /\ result.status_code = 502

\* the box of the request is invalid
BadBox == request.max_lat <= request.min_lat \/ request.max_lon <= request.min_lon

\* C5: a request whose box has max_lat <= min_lat or max_lon <= min_lon is
\* rejected with 400 before any sample point is planned and before any
\* provider query is issued.
C5_BadBoxRejected ==
    BadBox =>
        /\ pc \in {"validate", "raised"}
        /\ pc = "raised" => result = [kind |-> "error", status_code |-> 400]
        /\ sample_points = <<>>
        /\ attempts = <<>>
        /\ responses = <<>>

\* a box that is degenerate in longitude only has been rejected
C5_Witness ==
    /\ pc = "raised"
    /\ request.max_lat > request.min_lat
    /\ request.max_lon <= request.min_lon
    /\ result.status_code = 400

\* the batch has been dispatched
Started == status # <<>>

\* the handler has resumed from gather
Joined == Started /\ pc # "gather"

\* C6: the failure of one point fetch never cancels or fails a sibling that
\* is still in flight; all n fetches resolve to a value or a failure marker
\* and the join returns exactly n outcomes, one per sample point.
C6_Independent ==
    /\ [][(pc = "gather" /\ pc' = "gather" /\ Started) =>
            \A k \in Tasks :
                (responses[k].kind = "pending" /\ responses'[k].kind = "exc") =>
                    \A j \in Tasks \ {k} :
                        /\ responses'[j] = responses[j]
                        /\ status[j] = "inflight" => status'[j] = "inflight"]_vars
    /\ [](Joined =>
            /\ Len(responses) = Len(sample_points)
            /\ Len(responses) = rows * cols
            /\ \A k \in Tasks : responses[k].kind \in {"value", "exc"})

\* a fetch has failed while a sibling was still in flight
C6_Witness ==
    /\ pc = "gather"
    /\ Started
    /\ \E k \in Tasks : responses[k].kind = "exc"
    /\ \E j \in Tasks : status[j] = "inflight" /\ LatencyAt(j) <= TIMEOUT

\* C7: once the batch has started no per-point failure reaches the caller:
\* with at least one success the handler returns grid and stats, and the
\* only error of the fetch/aggregate stage is the 502 raised when every
\* point failed.
C7_OnlyTotalFailureSurfaces ==
    /\ (pc = "raised" /\ Started) =>
          /\ result = [kind |-> "error", status_code |-> 502]
          /\ Succeeded = {}
    /\ pc = "returned" => result.kind = "ok" /\ Succeeded # {}

\* a grid was returned although fetches failed by timeout, by status and by
\* an empty series
C7_Witness ==
    /\ ReturnedGrid
    /\ \E k \in Failed : LatencyAt(k) > TIMEOUT
    /\ \E k \in Failed : LatencyAt(k) <= TIMEOUT /\ ProviderAt(k).status = "http_error"
    /\ \E k \in Failed : LatencyAt(k) <= TIMEOUT /\ ProviderAt(k).status = "ok"

\* what the provider has in store for the k-th sample point: no answer
\* within the timeout, or the outcome of its answer
ExpectedAt(k) ==
    IF LatencyAt(k) > TIMEOUT THEN EXC ELSE FetchOutcome(ProviderAt(k), current_hour)

ExpectedOk == {k \in Tasks : ExpectedAt(k).kind = "value"}

ExpectedOutcomes == [k \in Tasks |-> ExpectedAt(k)]

\* C8: results are paired with sample points by position, not by completion
\* order: whatever the order in which the fetches complete, slot k of the
\* result holds the outcome of point k (and nothing else before point k has
\* completed), and grid and stats follow from the per-point outcomes alone.
C8_PairedByPosition ==
    /\ (pc = "gather" /\ Started) =>
          \A k \in Tasks :
              IF status[k] = "done" THEN responses[k] = ExpectedAt(k)
              ELSE responses[k] = PENDING
    /\ Joined => \A k \in Tasks : responses[k] = ExpectedAt(k)
    /\ ReturnedGrid =>
          /\ \A k \in ExpectedOk : CellOf(k) = Clamped(ExpectedAt(k).value)
          /\ \A k \in Tasks \ ExpectedOk : CellOf(k) = result.stats.avg_speed
          /\ result.stats.sample_count = Cardinality(ExpectedOk)
          /\ result.stats.avg_speed \in Means(OkValues(ExpectedOutcomes))

\* a grid was returned from a batch in which the second fetch completed
\* before the first and with a different outcome
C8_Witness ==
    /\ ReturnedGrid
    /\ LatencyAt(2) < LatencyAt(1)
    /\ LatencyAt(1) <= TIMEOUT
    /\ responses[1].kind = "value"
    /\ responses[2].kind = "value"
    /\ responses[1] # responses[2]

IsWaiting(k) == Len(status) >= k /\ status[k] = "waiting"

NoneWaiting == \A k \in 1..MAX_SAMPLE_POINTS : ~IsWaiting(k)

\* C9: the fetches holding a provider connection never exceed the pool cap
\* of 16, and every fetch waiting for a connection eventually acquires one
\* or resolves as a per-point failure: a fetch leaves the queue only with a
\* connection or as a failure, and the queue does not stay occupied.
C9_PoolBounded ==
    /\ [](Started => InUse <= MAX_CONNECTIONS)
    /\ [][\A k \in 1..MAX_SAMPLE_POINTS :
            (IsWaiting(k) /\ ~IsWaiting(k)') =>
                \/ status'[k] = "inflight"
                \/ status'[k] = "done" /\ responses'[k] = EXC]_vars
    /\ <>[]NoneWaiting

\* the pool is full, a queued fetch has been given a released connection
\* and another one is still queued
C9_Witness ==
    /\ pc = "gather"
    /\ InUse = MAX_CONNECTIONS
    /\ \E k \in Tasks : k > MAX_CONNECTIONS /\ status[k] = "inflight" /\ since[k] > 0
    /\ \E j \in Tasks : status[j] = "waiting"

\* C10 as stated: 10 time-units after the dispatch every fetch that was
\* still outstanding has been aborted.
C10_BatchTimeout ==
    (Started /\ clock > TIMEOUT) => \A k \in Tasks : status[k] = "done"

\* C10, amended: the handler resumes only when all n fetches have resolved;
\* the timeout of 10 bounds each fetch separately (its wait for a
\* connection, and its wait for the answer from the moment it got the
\* connection); a fetch whose timeout expired is a per-point failure whose
\* cell is imputed, and the request succeeds if any point succeeded.
C10_PerFetchTimeout ==
    /\ Joined => \A k \in Tasks : status[k] = "done" /\ responses[k].kind # "pending"
    /\ (pc = "gather" /\ Started) =>
          \A k \in Tasks :
              /\ status[k] = "inflight" => clock <= since[k] + TIMEOUT
              /\ status[k] = "waiting" => clock <= TIMEOUT
    /\ Started =>
          \A k \in Tasks : (status[k] = "done" /\ LatencyAt(k) > TIMEOUT) => responses[k] = EXC
    /\ ReturnedGrid => \A k \in Failed : CellOf(k) = result.stats.avg_speed
    /\ (pc = "raised" /\ Started) => Succeeded = {}

\* a grid was returned from a batch in which one fetch timed out and another
\* got its answer more than 10 time-units after the dispatch
C10_Witness ==
    /\ ReturnedGrid
    /\ clock > TIMEOUT
    /\ \E k \in Failed : LatencyAt(k) > TIMEOUT
    /\ \E j \in Succeeded : since[j] + LatencyAt(j) > TIMEOUT

\* ---- the scenario of the 2 x 2 request on the box (10, 10, 11, 11)
Scenario2x2 ==
    request = Request(10 * Deg, 10 * Deg, 11 * Deg, 11 * Deg, 2, 2)

\* the provider holds 5, 6, 7, 8, ... for the sample points in their order
AnswersInOrder == provider = RowMajorAnswers

\* the client.get calls made so far
RECURSIVE Calls(_)
Calls(S) ==
    IF S = {} THEN 0
    ELSE LET k == CHOOSE x \in S : TRUE
         IN  attempts[k] + Calls(S \ {k})

\* C11 as stated: the 2 x 2 request issues exactly 4 point fetches, and with
\* the values 5, 6, 7, 8 in row-major order the result is grid [[5,6],[7,8]]
\* with min 5, max 8, avg 6.5 and sample_count 4.
C11_FourFetches ==
    (Scenario2x2 /\ AnswersInOrder) =>
        /\ Started => Len(attempts) = 4
        /\ Joined => Calls(Tasks) = 4
        /\ (ReturnedGrid /\ Failed = {}) =>
              /\ result.grid = [r \in 0..1 |-> [c \in 0..1 |-> FromInt(5 + 2 * r + c)]]
              /\ result.stats = [min_speed |-> FromInt(5), max_speed |-> FromInt(8),
                                 avg_speed |-> FromJSON(Dec(65, 1)), sample_count |-> 4]

\* C11, amended: the 2 x 2 request is raised to 4 x 4, exactly 16 point
\* fetches are issued, and when they succeed with the values 5, 6, ..., 20
\* in row-major order the result is the 4 x 4 grid [[5,6,7,8], [9,10,11,12],
\* [13,14,15,16], [17,18,19,20]] with min 5, max 20, avg 12.5 and
\* sample_count 16.
C11_SixteenFetches ==
    (Scenario2x2 /\ AnswersInOrder) =>
        /\ Planned => rows = 4 /\ cols = 4
        /\ Started => Len(attempts) = 16
        /\ Joined => Calls(Tasks) = 16
        /\ (ReturnedGrid /\ Failed = {}) =>
              /\ result.grid = [r \in 0..3 |-> [c \in 0..3 |-> FromInt(5 + 4 * r + c)]]
              /\ result.stats = [min_speed |-> FromInt(5), max_speed |-> FromInt(20),
                                 avg_speed |-> FromJSON(Dec(125, 1)), sample_count |-> 16]
              /\ result.meta.rows = 4 /\ result.meta.cols = 4

\* the 2 x 2 request has returned its grid after all fetches succeeded, the
\* later points answering before the earlier ones
C11_Witness ==
    /\ Scenario2x2
    /\ AnswersInOrder
    /\ ReturnedGrid
    /\ Failed = {}
    /\ LatencyAt(2) < LatencyAt(1)

\* ---- the reduction loop
\* a valid request for 100 x 100
BigRequest == request.rows = 100 /\ request.cols = 100 /\ ~BadBox

\* the while condition of line 154 holds
OverBudget == pc = "reduce" /\ rows * cols > MAX_SAMPLE_POINTS

\* C12: a request with rows=100, cols=100 is first clamped to 24 x 24 and
\* then jointly shrunk (the two dimensions never more than one apart) until
\* the product is <= 81, ending at 9 x 9, 81 sample points.
C12_ShrunkTo9x9 ==
    /\ [][(BigRequest /\ pc = "clamp") => (rows' = 24 /\ cols' = 24)]_vars
    /\ [](BigRequest =>
            /\ pc = "reduce" => /\ 9 <= rows /\ rows <= 24
                                /\ cols - rows \in {0, 1}
            /\ Planned => rows = 9 /\ cols = 9
            /\ pc = "dispatch" => Len(sample_points) = 81)

\* the 100 x 100 request has been planned
C12_Witness ==
    /\ BigRequest
    /\ pc = "dispatch"
    /\ rows * cols = MAX_SAMPLE_POINTS
    /\ Len(sample_points) = MAX_SAMPLE_POINTS

\* C14: every iteration of the reduction loop taken while rows * cols > 81
\* decrements by exactly one the dimension that is currently larger (rows
\* when they are equal), leaves the other unchanged and takes no dimension
\* below 4.
C14_LargerShrinks ==
    [][OverBudget =>
          /\ IF rows >= cols
             THEN rows' = rows - 1 /\ cols' = cols
             ELSE cols' = cols - 1 /\ rows' = rows
          /\ rows' >= MIN_GRID_DIMENSION
          /\ cols' >= MIN_GRID_DIMENSION
          /\ pc' = "reduce"]_vars

\* the loop has shrunk both dimensions, is at a tie and has to go on
C14_Witness ==
    /\ OverBudget
    /\ rows = cols
    /\ rows < ClampDim(request.rows)
    /\ cols < ClampDim(request.cols)

\* the loop is over and the grid is within the budget of sample points
WithinBudget == pc = "plan" /\ rows * cols <= MAX_SAMPLE_POINTS

\* the loop is running
Reducing == pc = "reduce"

\* C15: the reduction loop terminates for every requested (rows, cols), with
\* rows * cols <= 81; the exit at the floor (both dimensions at 4 and the
\* product still above 81) is never the reason it stops.
C15_ReductionTerminates ==
    /\ Reducing ~> WithinBudget
    /\ [](OverBudget => rows > MIN_GRID_DIMENSION \/ cols > MIN_GRID_DIMENSION)
    /\ [](pc = "plan" => rows * cols <= MAX_SAMPLE_POINTS)

\* the loop has stopped after shrinking a request that was over the budget
C15_Witness ==
    /\ pc = "plan"
    /\ ClampDim(request.rows) * ClampDim(request.cols) > MAX_SAMPLE_POINTS
    /\ rows * cols <= MAX_SAMPLE_POINTS
    /\ rows + cols < ClampDim(request.rows) + ClampDim(request.cols)

\* ---- the order of the sample points
\* the (row_index, col_index) key of the k-th sample point
KeyOf(k) == <<sample_points[k][1], sample_points[k][2]>>

\* C16: the planned sample points are in row-major order and cover the grid
\* exactly once: point k (0-based) has the key (k div cols, k mod cols), the
\* rows * cols keys are pairwise distinct, every cell is the target of
\* exactly one point, and the results are written one per cell, each into a
\* cell nothing was written to before.
C16_RowMajorCover ==
    /\ [](pc = "dispatch" =>
            /\ Len(sample_points) = rows * cols
            /\ \A k \in Tasks : KeyOf(k) = <<(k - 1) \div cols, (k - 1) % cols>>
            /\ \A k \in Tasks : \A j \in Tasks : KeyOf(k) = KeyOf(j) => k = j
            /\ \A r \in 0..(rows - 1), c \in 0..(cols - 1) :
                  Cardinality({k \in Tasks : KeyOf(k) = <<r, c>>}) = 1)
    /\ [][pc \notin {"plan", "validate"} => sample_points' = sample_points]_vars
    /\ [][(pc = "collect" /\ index < Len(responses)) =>
            /\ grid[KeyOf(index + 1)[1]][KeyOf(index + 1)[2]] = None
            /\ \A r \in 0..(rows - 1), c \in 0..(cols - 1) :
                  <<r, c>> # KeyOf(index + 1) => grid'[r][c] = grid[r][c]
            /\ \A j \in 1..index : KeyOf(j) # KeyOf(index + 1)]_vars

\* all results of a grid that is not square have been written
C16_Witness ==
    /\ pc = "check"
    /\ rows # cols
    /\ index = rows * cols
    /\ collected # <<>>

\* C18: each sample point is fetched with a single attempt: one call of
\* client.get per planned sample point, rows * cols in total, and a point
\* whose fetch has resolved (failed or not) is never queried again.
C18_SingleAttempt ==
    /\ [](Started =>
            /\ Len(attempts) = rows * cols
            /\ \A k \in Tasks :
                  /\ attempts[k] <= 1
                  /\ status[k] # "new" <=> attempts[k] = 1)
    /\ [](Joined => Calls(Tasks) = rows * cols)
    /\ [][Started =>
            \A k \in Tasks :
                responses[k].kind # "pending" =>
                    /\ attempts'[k] = attempts[k]
                    /\ responses'[k] = responses[k]]_vars

\* a grid was returned although fetches had failed by timeout and by status,
\* each of them after its only attempt
C18_Witness ==
    /\ ReturnedGrid
    /\ \E k \in Failed : LatencyAt(k) > TIMEOUT /\ attempts[k] = 1
    /\ \E k \in Failed : LatencyAt(k) <= TIMEOUT /\ attempts[k] = 1
    /\ Calls(Tasks) = rows * cols

\* ---- a batch without failures
\* the values of the returned grid, row by row
GridValues ==
    [i \in 1..(rows * cols) |-> result.grid[(i - 1) \div cols][(i - 1) % cols]]

\* C13: if all n point fetches succeed (k = n), no cell is imputed: every
\* cell holds the clamped value of its own fetch, the second pass changes no
\* cell, sample_count is rows * cols, and stats.avg_speed is the arithmetic
\* mean (sum / count, in floats) of all rows * cols values of the returned grid.
C13_NoImputation ==
    /\ [](ReturnedGrid /\ Failed = {} =>
            /\ \A k \in Tasks : CellOf(k) = Clamped(responses[k].value)
            /\ result.stats.sample_count = rows * cols
            /\ Len(GridValues) = Len(responses)
            /\ result.stats.avg_speed \in Means(GridValues))
    /\ [][pc = "fill" /\ Failed = {} => grid' = grid]_vars

\* a grid was returned after every fetch succeeded, with values that are no
\* binary fractions, one of them negative, and a mean that is in no cell
C13_Witness ==
    /\ ReturnedGrid
    /\ Failed = {}
    /\ provider = MixedDecimalAnswers
    /\ \E k \in Tasks : FLess(responses[k].value, FZero)
    /\ \A k \in Tasks : CellOf(k) # result.stats.avg_speed

\* ---- imputation and the join
\* every point fetch of the batch has resolved
AllResolved == Started /\ \A k \in Tasks : status[k] = "done"

\* a statistic of the batch has been computed
StatsComputed == average_speed # None \/ min_speed # None \/ max_speed # None

\* when the fetch of point k was over, for a fetch that got its connection
\* at since[k]
ResolvedAt(k) == since[k] + Min(LatencyAt(k), TIMEOUT)

\* the outcomes as they stood when the fetch of point k failed, in a batch
\* that had a connection for every fetch
OutcomesAt(k) ==
    [j \in Tasks |-> IF ResolvedAt(j) < ResolvedAt(k) THEN responses[j] ELSE PENDING]

\* C17: imputation is ordered after the join. While any point fetch is
\* unresolved there is no grid, no collected value, no statistic and no
\* result grid; the average, once computed, is the mean of all successful
\* clamped values of the batch; and the second pass writes only that average,
\* only into cells of failed fetches.
C17_ImputationAfterJoin ==
    /\ [](~AllResolved =>
            grid = <<>> /\ collected = <<>> /\ ~StatsComputed /\ result.kind # "ok")
    /\ [](average_speed # None => average_speed \in Means(OkValues(responses)))
    /\ [][pc = "fill" /\ grid' # grid =>
             \E k \in Failed :
                 /\ grid[(k - 1) \div cols][(k - 1) % cols] = None
                 /\ grid' = [grid EXCEPT ![(k - 1) \div cols][(k - 1) % cols] = average_speed]]_vars

\* a failed cell has been filled in a batch where that fetch failed while
\* later successes were still outstanding, and the mean of the successes
\* known at the time of the failure is another value
C17_Witness ==
    /\ pc = "fill"
    /\ Len(responses) <= MAX_CONNECTIONS
    /\ \E k \in Failed :
          /\ grid[(k - 1) \div cols][(k - 1) % cols] = average_speed
          /\ \E j \in Succeeded : ResolvedAt(k) < ResolvedAt(j)
          /\ \E j \in Succeeded : ResolvedAt(j) < ResolvedAt(k)
          /\ average_speed \notin Means(OkValues(SelectSeq(OutcomesAt(k),
                                                 LAMBDA r : r.kind # "pending")))

\* ---- the hour lookup of a fetch
\* the step resolves the fetch of point k with the provider's answer
GotAnswer(k) ==
    /\ Started
    /\ status[k] = "inflight"
    /\ LatencyAt(k) <= TIMEOUT
    /\ responses'[k] # responses[k]

\* the position (0-based) of the series entry for the current hour: that of
\* the first timestamp equal to it, or 0 if there is none
HourIndex(p) ==
    LET hits == {t \in 1..Len(p.times) : p.times[t] = current_hour}
    IN  IF hits = {} THEN 0 ELSE (CHOOSE t \in hits : \A u \in hits : t <= u) - 1

\* the series of p has a number at the position for the current hour
HasEntry(p) ==
    /\ HourIndex(p) + 1 \in DOMAIN p.speeds
    /\ p.speeds[HourIndex(p) + 1] # None

\* C19 as stated: a fetch that gets a success response with a non-empty
\* speed series returns the series entry at the index where the current hour
\* occurs in the timestamp list, and the first entry when the list is empty
\* or has no exact match; an empty series resolves as a failure.
C19_AlwaysAnEntry ==
    [][\A k \in Tasks :
          (GotAnswer(k) /\ ProviderAt(k).status = "ok") =>
              \A p \in {ProviderAt(k)} :
                  IF p.speeds = <<>>
                  THEN responses'[k].kind = "exc"
                  ELSE /\ responses'[k].kind = "value"
                       /\ HasEntry(p)
                       /\ responses'[k].value = FromJSON(p.speeds[HourIndex(p) + 1])]_vars

\* C19, amended: a fetch that gets a success response with a non-empty speed
\* series returns the series entry at the first index where the current hour
\* occurs in the timestamp list, and the first entry when the list is empty
\* or has no exact match, provided the series holds a number at that index;
\* if the series ends before that index or holds null there, the fetch
\* resolves as a failure, as it does for an empty series.
C19_HourLookup ==
    [][\A k \in Tasks :
          (GotAnswer(k) /\ ProviderAt(k).status = "ok") =>
              \A p \in {ProviderAt(k)} :
                  IF p.speeds # <<>> /\ HasEntry(p)
                  THEN /\ responses'[k].kind = "value"
                       /\ responses'[k].value = FromJSON(p.speeds[HourIndex(p) + 1])
                  ELSE responses'[k].kind = "exc"]_vars

\* every answer of the hour-lookup provider has arrived: the hour beyond
\* the end of the series and the null entry failed, the other lookups
\* returned the entry of the hour or the first entry
C19_Witness ==
    /\ provider = HourLookupAnswers
    /\ AllResolved
    /\ \A k \in Tasks : LatencyAt(k) <= TIMEOUT
    /\ responses[1].kind = "exc"
    /\ responses[2] = Value(FromInt(5))
    /\ responses[3] = Value(FromInt(7))
    /\ responses[4] = Value(FromInt(-2))
    /\ responses[5].kind = "exc"
    /\ responses[6] = Value(FromJSON(Dec(25, 1)))
    /\ responses[7] = Value(FromInt(9))
    /\ responses[9].kind = "exc"

\* ---- the order of the statistics
\* C20: every successful raw value is clamped to >= 0.0 before it enters
\* the statistics or the grid, so in every returned result
\* 0.0 <= min_speed <= avg_speed <= max_speed and every grid cell, measured
\* or imputed, lies in [min_speed, max_speed].
C20_StatsOrdered ==
    ReturnedGrid =>
        /\ FLeq(FZero, result.stats.min_speed)
        /\ FLeq(result.stats.min_speed, result.stats.avg_speed)
        /\ FLeq(result.stats.avg_speed, result.stats.max_speed)
        /\ \A r \in 0..(rows - 1), c \in 0..(cols - 1) :
              /\ FLeq(result.stats.min_speed, result.grid[r][c])
              /\ FLeq(result.grid[r][c], result.stats.max_speed)
====
